---- MODULE Spec2Model ----
(***************************************************************************)
(* PropagateScopeDependencies: the pass that walks a ReactiveFunction and  *)
(* fills every ReactiveScope's dependencies, declarations and              *)
(* reassignments.                                                          *)
(*                                                                         *)
(* The ReactiveFunction is the input.  It is produced item by item, in     *)
(* traversal order, while the walker visits it: each action is the visit   *)
(* of one block item (or the end of one block), with the item drawn from   *)
(* the bounded sets below.  Every finite block tree within the bounds is   *)
(* one behaviour.                                                          *)
(***************************************************************************)
EXTENDS Integers, Sequences, FiniteSets, TLC

\* ---------------------------------------------------------------- bounds
\* ids handed to the function's instructions and terminals: 1..MaxId
MaxId == 3
\* reactive scopes of the function
MaxScopes == 3
\* operands of one instruction value
MaxOperands == 1
\* case blocks of one switch
MaxCases == 2

\* ----------------------------------------------------------- identifiers
\* fn.id, one parameter, one free variable, one named local, two temporaries
FnId == "f"
Params == {"a"}
FreeVars == {"g"}
Locals == {"y"}
Temps == {"t1", "t2"}
Identifiers == {FnId} \cup Params \cup FreeVars \cup Locals \cup Temps
Keys == {"b", "c"}

\* identifier.name === null holds of the temporaries only
IsNamed(x) == x \notin Temps

NoScope == 0
ScopeIds == 1..MaxScopes
UnknownScope == 0 - 1

\* path: null (the whole value); the code never builds an empty path array
NullPath == <<>>
Dep(place, path) == [place |-> place, path |-> path]
NoDep == [place |-> "", path |-> NullPath]
NoDecl == [kind |-> "Undefined", id |-> 0, scope |-> NoScope]

VARIABLES
    declarations,  \* Context.#declarations: identifier -> Decl (NoDecl: absent)
    properties,    \* Context.#properties: identifier -> dependency (NoDep: absent)
    scopes,        \* Context.#scopes: the stack of open scopes
    depStack,      \* the working sets: Last is Context.#dependencies, below it
                   \* the previousDependencies saved by each open enter()
    sdeps,         \* scope.dependencies, per scope (insertion order)
    sdecls,        \* scope.declarations, per scope (the keys of the map)
    sreass,        \* scope.reassignments, per scope
    rstart,        \* scope.range.start, per scope (input)
    mstart,        \* identifier.mutableRange.start, per identifier (input)
    reactive,      \* inferReactiveIdentifiers(fn), per identifier (input)
    identScope,    \* identifier.scope, per identifier (input)
    frames,        \* the walker's open blocks, outermost first
    nextId,        \* the id of the next instruction or terminal
    nscopes,       \* how many scopes the walker has entered
    pc,            \* "walk" | "done" | "error"
    \* history of the walk, read by the properties only
    reads,         \* per scope: the reads of named Dynamic identifiers declared
                   \* before the scope's range, made while the scope was open
    escaped,       \* per scope: the identifiers read while their declaration
                   \* record named the scope and the scope was closed
    written,       \* per scope: the outputs of the instructions visited while
                   \* the scope was open
    chain,         \* per temporary: the property chain it was loaded by
    malformed      \* whether the walker met an item of a form it does not know

vars == <<declarations, properties, scopes, depStack, sdeps, sdecls, sreass,
          rstart, mstart, reactive, identScope, frames, nextId, nscopes, pc,
          reads, escaped, written, chain, malformed>>

\* The mutable analysis state as one record, threaded through the visitors.
Ctx == [declarations |-> declarations, properties |-> properties,
        scopes |-> scopes, depStack |-> depStack,
        sdeps |-> sdeps, sdecls |-> sdecls, sreass |-> sreass]

Last(s) == s[Len(s)]
Front(s) == SubSeq(s, 1, Len(s) - 1)
RemoveAt(s, i) == SubSeq(s, 1, i - 1) \o SubSeq(s, i + 1, Len(s))

\* ------------------------------------------------------------ Context
IsScopeActive(c, scope) == \E i \in DOMAIN c.scopes : c.scopes[i] = scope

CurrentScope(c) == IF c.scopes = <<>> THEN NoScope ELSE Last(c.scopes)

Declare(c, x, decl) ==
    [c EXCEPT !.declarations = [@ EXCEPT ![x] = decl]]

\* the dependency a property load of `property` off `object` stands for
PropertyDependency(c, object, property) ==
    LET objectDependency == c.properties[object] IN
    IF objectDependency = NoDep
    THEN Dep(object, <<property>>)
    ELSE Dep(objectDependency.place, Append(objectDependency.path, property))

DeclareProperty(c, lvalue, object, property) ==
    [c EXCEPT !.properties =
        [@ EXCEPT ![lvalue] = PropertyDependency(c, object, property)]]

\* lines 146-160: a path-less operand that is an anonymous property-load
\* temporary resolves to the expanded dependency
ResolveDependency(c, dependency) ==
    IF dependency.path # NullPath
    THEN dependency
    ELSE IF ~IsNamed(dependency.place) /\ c.properties[dependency.place] # NoDep
         THEN c.properties[dependency.place]
         ELSE dependency

\* the escape check without the test that the defining scope has concluded
PromoteEscapeWhileActive(c, maybeDependency) ==
    LET decl == c.declarations[maybeDependency.place] IN
    IF decl # NoDecl /\ decl.scope # NoScope
    THEN [c EXCEPT !.sdecls[decl.scope] = @ \cup {maybeDependency.place}]
    ELSE c

\* the escape check made only for a candidate that can become a dependency:
\* a current scope exists and the declaration is not Const
PromoteEscapeOfCandidates(c, maybeDependency) ==
    LET decl == c.declarations[maybeDependency.place] IN
    IF /\ decl # NoDecl /\ decl.scope # NoScope /\ ~IsScopeActive(c, decl.scope)
       /\ CurrentScope(c) # NoScope
       /\ decl.kind # "Const"
    THEN [c EXCEPT !.sdecls[decl.scope] = @ \cup {maybeDependency.place}]
    ELSE c

\* the escape check writing the operand into the defining scope's
\* dependencies instead of its declarations
PromoteEscapeAsDependency(c, maybeDependency) ==
    LET decl == c.declarations[maybeDependency.place] IN
    IF decl # NoDecl /\ decl.scope # NoScope /\ ~IsScopeActive(c, decl.scope)
    THEN [c EXCEPT !.sdeps[decl.scope] = Append(@, maybeDependency)]
    ELSE c

\* lines 171-180: a value used after its defining scope concluded becomes an
\* output of that scope
PromoteEscape(c, maybeDependency) ==
    LET decl == c.declarations[maybeDependency.place] IN
    IF decl # NoDecl /\ decl.scope # NoScope /\ ~IsScopeActive(c, decl.scope)
    THEN [c EXCEPT !.sdecls[decl.scope] = @ \cup {maybeDependency.place}]
    ELSE c

\* Qualifies without the test that the declaration precedes the scope's range
QualifiesAnyId(c, maybeDependency) ==
    LET decl == c.declarations[maybeDependency.place]
        currentScope == CurrentScope(c) IN
    /\ currentScope # NoScope
    /\ decl # NoDecl
    /\ decl.kind # "Const"
    /\ (decl.scope = NoScope \/ ~IsScopeActive(c, decl.scope))

\* lines 184-191
Qualifies(c, maybeDependency) ==
    LET decl == c.declarations[maybeDependency.place]
        currentScope == CurrentScope(c) IN
    /\ currentScope # NoScope
    /\ decl # NoDecl
    /\ decl.kind # "Const"
    /\ decl.id < rstart[currentScope]
    /\ (decl.scope = NoScope \/ ~IsScopeActive(c, decl.scope))

RECURSIVE CommonPathIndex(_, _, _)
CommonPathIndex(operandPath, depPath, i) ==
    IF /\ i < Len(operandPath)
       /\ i < Len(depPath)
       /\ operandPath[i + 1] = depPath[i + 1]
    THEN CommonPathIndex(operandPath, depPath, i + 1)
    ELSE i

\* lines 193-224: the scan of the working set from entry i on.  The set holds
\* objects, in insertion order; every add is of an object not yet in the set,
\* so it appends.
RECURSIVE MergeFrom(_, _, _)
MergeFrom(deps, maybeDependency, i) ==
    IF i > Len(deps)
    THEN Append(deps, maybeDependency)
    ELSE LET dep == deps[i] IN
         IF dep.place # maybeDependency.place
         THEN MergeFrom(deps, maybeDependency, i + 1)
         ELSE IF dep.path = NullPath
         THEN deps
         ELSE IF maybeDependency.path = NullPath
         THEN Append(RemoveAt(deps, i), maybeDependency)
         ELSE IF CommonPathIndex(maybeDependency.path, dep.path, 0) = Len(dep.path)
         THEN deps
         ELSE MergeFrom(deps, maybeDependency, i + 1)

\* the merge with a swap that deletes the path-qualified entry and does not
\* add the whole-value operand
MergeDependencyNoAdd(deps, maybeDependency) ==
    LET swapped == {i \in DOMAIN deps :
                       /\ deps[i].place = maybeDependency.place
                       /\ deps[i].path # NullPath} IN
    IF maybeDependency.path = NullPath /\ swapped # {}
    THEN RemoveAt(deps, CHOOSE i \in swapped : \A j \in swapped : i <= j)
    ELSE MergeFrom(deps, maybeDependency, 1)

\* the merge with the converse test added: a candidate whose path is a prefix
\* of an existing entry's path is dropped
MergeDependencySymmetric(deps, maybeDependency) ==
    IF \E i \in DOMAIN deps :
          /\ deps[i].place = maybeDependency.place
          /\ maybeDependency.path # NullPath
          /\ Len(maybeDependency.path) <= Len(deps[i].path)
          /\ SubSeq(deps[i].path, 1, Len(maybeDependency.path))
                = maybeDependency.path
    THEN deps
    ELSE MergeFrom(deps, maybeDependency, 1)

MergeDependency(deps, maybeDependency) == MergeFrom(deps, maybeDependency, 1)

VisitDependency(c, dependency) ==
    LET maybeDependency == ResolveDependency(c, dependency)
        c1 == PromoteEscape(c, maybeDependency) IN
    IF Qualifies(c1, maybeDependency)
    THEN [c1 EXCEPT !.depStack[Len(c1.depStack)] =
                        MergeDependency(@, maybeDependency)]
    ELSE c1

VisitOperand(c, place) == VisitDependency(c, Dep(place, NullPath))

VisitProperty(c, object, property) ==
    VisitDependency(c, PropertyDependency(c, object, property))

\* lvalue: [kind, place]; NoLValue when the instruction has no output
NoLValue == [kind |-> "None", place |-> ""]

\* scope: the lvalue identifier's own scope field (identifier.scope)
VisitReassignment(c, lvalue, scope) ==
    IF lvalue.kind # "Reassign"
    THEN c
    ELSE LET declaration == c.declarations[lvalue.place] IN
         IF /\ CurrentScope(c) # NoScope
            /\ scope # NoScope
            /\ declaration # NoDecl
            /\ declaration.scope # scope
         THEN [c EXCEPT !.sreass[CurrentScope(c)] = @ \cup {lvalue.place}]
         ELSE c

\* ------------------------------------------------------------- visitors
RECURSIVE VisitOperands(_, _)
VisitOperands(c, operands) ==
    IF operands = <<>>
    THEN c
    ELSE VisitOperands(VisitOperand(c, Head(operands)), Tail(operands))

\* A value: [kind, object, property, operands, parts].
\*   "PropertyLoad": object, property        "Other": operands
\*   "LogicalExpression": parts = <<left, right>>
\*   "ConditionalExpression": parts = <<test, consequent, alternate>>
\*   "SequenceExpression": parts = the instructions' values, then the value
PropertyLoad(o, k) ==
    [kind |-> "PropertyLoad", object |-> o, property |-> k,
     operands |-> <<>>, parts |-> <<>>]
Other(ops) ==
    [kind |-> "Other", object |-> "", property |-> "",
     operands |-> ops, parts |-> <<>>]
Composite(kind, parts) ==
    [kind |-> kind, object |-> "", property |-> "",
     operands |-> <<>>, parts |-> parts]

\* eachInstructionValueOperand, eachReactiveValueOperand: the places a value
\* reads; a property load reads its object
EachValueOperand(value) ==
    IF value.kind = "PropertyLoad" THEN <<value.object>> ELSE value.operands

VisitInstructionValue(c, value, lvalue) ==
    IF value.kind = "PropertyLoad"
    THEN IF lvalue # NoLValue
         THEN DeclareProperty(c, lvalue.place, value.object, value.property)
         ELSE VisitProperty(c, value.object, value.property)
    ELSE VisitOperands(c, EachValueOperand(value))

\* start, scope: the lvalue identifier's mutableRange.start and scope field;
\* isReactive: the oracle's answer for it
VisitInstruction(c, value, lvalue, start, scope, isReactive) ==
    LET c1 == VisitInstructionValue(c, value, lvalue) IN
    IF lvalue = NoLValue
    THEN c1
    ELSE LET c2 == VisitReassignment(c1, lvalue, scope)
             kind == IF isReactive THEN "Dynamic" ELSE "Const" IN
         Declare(c2, lvalue.place,
                 [kind |-> kind, id |-> start, scope |-> CurrentScope(c2)])

\* the instructions of a sequence expression carry no output here
RECURSIVE VisitSequenceInstructions(_, _)
VisitSequenceInstructions(c, values) ==
    IF values = <<>>
    THEN c
    ELSE VisitSequenceInstructions(
             VisitInstruction(c, Head(values), NoLValue, 0, NoScope, FALSE),
             Tail(values))

RECURSIVE VisitReactiveValue(_, _)
RECURSIVE VisitReactiveValues(_, _)
VisitReactiveValues(c, values) ==
    IF values = <<>>
    THEN c
    ELSE VisitReactiveValues(VisitReactiveValue(c, Head(values)), Tail(values))

VisitReactiveValue(c, value) ==
    IF value.kind \in {"LogicalExpression", "ConditionalExpression"}
    THEN VisitReactiveValues(c, value.parts)
    ELSE IF value.kind = "SequenceExpression"
    THEN VisitInstructionValue(
             VisitSequenceInstructions(c, Front(value.parts)),
             Last(value.parts), NoLValue)
    ELSE VisitOperands(c, EachValueOperand(value))

\* lines 256-262: the closed scope's dependencies are offered to the enclosing
\* context, in the set's order
RECURSIVE PropagateUpward(_, _)
PropagateUpward(c, scopeDependencies) ==
    IF scopeDependencies = <<>>
    THEN c
    ELSE PropagateUpward(VisitDependency(c, Head(scopeDependencies)),
                         Tail(scopeDependencies))

\* lines 81-84: the first half of enter(), up to the call of fn()
EnterPush(c, scope) ==
    [c EXCEPT !.depStack = Append(@, <<>>), !.scopes = Append(@, scope)]

\* the second half of enter() without the restoring of #dependencies
LeaveScopeNoRestore(c) ==
    LET scope == Last(c.scopes)
        scopeDependencies == Last(c.depStack)
        c1 == [c EXCEPT !.scopes = Front(@)]
        c2 == [c1 EXCEPT !.sdeps[scope] = scopeDependencies] IN
    PropagateUpward(c2, scopeDependencies)

\* the second half of enter() without #scopes.pop()
LeaveScopeNoPop(c) ==
    LET scope == Last(c.scopes)
        scopeDependencies == Last(c.depStack)
        c1 == [c EXCEPT !.depStack = Front(@)]
        c2 == [c1 EXCEPT !.sdeps[scope] = scopeDependencies] IN
    PropagateUpward(c2, scopeDependencies)

\* lines 86-88 and 255-262: the second half of enter(), the assignment of
\* scope.dependencies and the upward propagation
LeaveScope(c) ==
    LET scope == Last(c.scopes)
        scopeDependencies == Last(c.depStack)
        c1 == [c EXCEPT !.scopes = Front(@), !.depStack = Front(@)]
        c2 == [c1 EXCEPT !.sdeps[scope] = scopeDependencies] IN
    PropagateUpward(c2, scopeDependencies)

\* ------------------------------------------------------------ the input
\* an operand is a declared identifier or a free variable
Readable == {x \in Identifiers : declarations[x] # NoDecl} \cup FreeVars

\* the object of a property load is a parameter, a local or a temporary
Objects == Readable \ ({FnId} \cup FreeVars)

OperandLists == UNION {[1..n -> Readable] : n \in 0..MaxOperands}

Values ==
    {PropertyLoad(o, k) : o \in Objects, k \in Keys}
    \cup {Other(ops) : ops \in OperandLists}

\* the values of a terminal's sub-expressions: a value, or one compound
\* expression over reads of one identifier each
Leaves == {Other(<<x>>) : x \in Objects}
ReactiveValues ==
    Values
    \cup {Composite("LogicalExpression", <<l, r>>) : l, r \in Leaves}
    \cup {Composite("ConditionalExpression", <<t, l, r>>) : t, l, r \in Leaves}
    \cup {Composite("SequenceExpression", <<i, v>>) :
            i \in Leaves, v \in {PropertyLoad(o, k) : o \in Objects, k \in Keys}}

\* An instruction's output: a temporary is written once, by a property load,
\* t2 after t1; a named local or a parameter is declared by its first write
\* and reassigned by the later ones.
Writable ==
    Params \cup Locals
    \cup {t \in Temps : /\ declarations[t] = NoDecl
                        /\ (t = "t2" => declarations["t1"] # NoDecl)}

LValueOf(x) ==
    [kind |-> IF declarations[x] = NoDecl THEN "Let" ELSE "Reassign", place |-> x]

\* mutableRange.start: the id of the instruction that first writes the
\* identifier (0 for a parameter)
MutableStart(x) == IF declarations[x] = NoDecl THEN nextId ELSE mstart[x]

\* ------------------------------------------------------------- history
\* the identifiers a value reads, each with whether it is read as the object
\* of a property load
RECURSIVE ReadsOf(_)
ReadsOf(value) ==
    IF value.kind = "PropertyLoad"
    THEN {[id |-> value.object, object |-> TRUE]}
    ELSE IF value.kind = "Other"
    THEN {[id |-> value.operands[i], object |-> FALSE] :
             i \in DOMAIN value.operands}
    ELSE UNION {ReadsOf(value.parts[i]) : i \in DOMAIN value.parts}

IsFree(decl) == decl.scope = NoScope \/ ~IsScopeActive(Ctx, decl.scope)

Record(rs, lvalue) ==
    /\ reads' =
          [s \in ScopeIds |->
              IF ~IsScopeActive(Ctx, s) THEN reads[s]
              ELSE reads[s] \cup
                   {[id |-> r.id, object |-> r.object,
                     free |-> IsFree(declarations[r.id])] :
                       r \in {q \in rs :
                                /\ IsNamed(q.id)
                                /\ declarations[q.id].kind = "Dynamic"
                                /\ declarations[q.id].id < rstart[s]}}]
    /\ escaped' =
          [s \in ScopeIds |->
              IF IsScopeActive(Ctx, s) THEN escaped[s]
              ELSE escaped[s] \cup
                   {r.id : r \in {q \in rs : declarations[q.id].scope = s}}]
    /\ written' =
          [s \in ScopeIds |->
              IF IsScopeActive(Ctx, s) /\ lvalue # NoLValue
              THEN written[s] \cup {lvalue.place}
              ELSE written[s]]

\* the chain of property loads over temporaries that ends in this load
ChainOf(object, property) ==
    IF ~IsNamed(object) /\ chain[object] # NoDep
    THEN Dep(chain[object].place, Append(chain[object].path, property))
    ELSE Dep(object, <<property>>)

\* --------------------------------------------------------------- actions
Install(c) ==
    /\ declarations' = c.declarations
    /\ properties' = c.properties
    /\ scopes' = c.scopes
    /\ depStack' = c.depStack
    /\ sdeps' = c.sdeps
    /\ sdecls' = c.sdecls
    /\ sreass' = c.sreass

\* assertExhaustive(value, message) throws: the outcome of the pass
AssertExhaustive == "error"

Scope(kind) == [kind |-> "scope", more |-> 0]
Block(more) == [kind |-> "block", more |-> more]

Init ==
    /\ declarations =
          [x \in Identifiers |->
              IF x = FnId THEN [kind |-> "Const", id |-> 0, scope |-> NoScope]
              ELSE IF x \in Params
                   THEN [kind |-> "Dynamic", id |-> 0, scope |-> NoScope]
                   ELSE NoDecl]
    /\ properties = [x \in Identifiers |-> NoDep]
    /\ scopes = <<>>
    /\ depStack = << <<>> >>
    /\ sdeps = [s \in ScopeIds |-> <<>>]
    /\ sdecls = [s \in ScopeIds |-> {}]
    /\ sreass = [s \in ScopeIds |-> {}]
    /\ rstart = [s \in ScopeIds |-> 0]
    /\ mstart = [x \in Identifiers |-> 0]
    /\ reactive = [x \in Identifiers |-> "unknown"]
    /\ identScope = [x \in Identifiers |-> UnknownScope]
    /\ frames = <<>>
    /\ nextId = 1
    /\ nscopes = 0
    /\ pc = "walk"
    /\ reads = [s \in ScopeIds |-> {}]
    /\ escaped = [s \in ScopeIds |-> {}]
    /\ written = [s \in ScopeIds |-> {}]
    /\ chain = [x \in Identifiers |-> NoDep]
    /\ malformed = FALSE

Walking == pc = "walk" /\ nextId <= MaxId

Inputs == <<rstart, mstart, reactive, identScope>>

\* case "instruction" (line 265): an instruction without an output
InstructionNoLValue ==
    /\ Walking
    /\ \E value \in Values :
          /\ Install(VisitInstruction(Ctx, value, NoLValue, 0, NoScope, FALSE))
          /\ Record(ReadsOf(value), NoLValue)
    /\ nextId' = nextId + 1
    /\ UNCHANGED <<malformed, Inputs, frames, nscopes, pc, chain>>

\* case "instruction" (line 265): an instruction with an output.  The oracle's
\* answer for the output and the output's own scope field are fixed the first
\* time the pass reads them.  The value is a property load or a value without
\* operands.  A parameter has no owning scope and is not reassigned by a
\* property load, a local's owning scope is null or a scope entered before the
\* local is reassigned, and the oracle calls every temporary reactive.
InstructionLValue ==
    /\ Walking
    /\ \E value \in Values, x \in Writable, r \in {"yes", "no"},
          isc \in {NoScope} \cup 1..nscopes :
          /\ x \in Temps => value.kind = "PropertyLoad" /\ r = "yes"
          /\ x \in Params => value.kind = "Other" /\ isc = NoScope
          /\ value.kind = "Other" => value.operands = <<>>
          /\ reactive[x] \in {"unknown", r}
          /\ IF LValueOf(x).kind = "Reassign"
             THEN identScope[x] \in {UnknownScope, isc}
             ELSE isc = NoScope
          /\ reactive' = [reactive EXCEPT ![x] = r]
          /\ identScope' = IF LValueOf(x).kind = "Reassign"
                           THEN [identScope EXCEPT ![x] = isc]
                           ELSE identScope
          /\ mstart' = [mstart EXCEPT ![x] = MutableStart(x)]
          /\ Install(VisitInstruction(Ctx, value, LValueOf(x),
                                      MutableStart(x), isc, r = "yes"))
          /\ Record(ReadsOf(value), LValueOf(x))
          /\ chain' = IF x \in Temps
                      THEN [chain EXCEPT ![x] = ChainOf(value.object, value.property)]
                      ELSE chain
    /\ nextId' = nextId + 1
    /\ UNCHANGED <<malformed, rstart, frames, nscopes, pc>>

\* case "scope" (line 251), up to the visit of the scope's block; the scope's
\* range starts at the next id
EnterScope ==
    /\ Walking
    /\ nscopes < MaxScopes
    /\ LET scope == nscopes + 1 IN
       /\ rstart' = [rstart EXCEPT ![scope] = nextId]
       /\ Install(EnterPush(Ctx, scope))
    /\ frames' = Append(frames, Scope("scope"))
    /\ nscopes' = nscopes + 1
    /\ UNCHANGED <<malformed, mstart, reactive, identScope, nextId, pc,
                   reads, escaped, written, chain>>

\* case "scope", from the end of the scope's block on; a scope's range is not
\* empty
ExitScope ==
    /\ pc = "walk"
    /\ frames # <<>>
    /\ Last(frames).kind = "scope"
    /\ rstart[Last(scopes)] < nextId
    /\ Install(LeaveScope(Ctx))
    /\ frames' = Front(frames)
    /\ UNCHANGED <<malformed, Inputs, nextId, nscopes, pc, reads, escaped, written, chain>>

\* case "break", case "continue" (lines 272-275)
TerminalBreakContinue ==
    /\ Walking
    /\ nextId' = nextId + 1
    /\ UNCHANGED <<malformed, declarations, properties, scopes, depStack, sdeps, sdecls,
                   sreass, Inputs, frames, nscopes, pc,
                   reads, escaped, written, chain>>

\* case "return" with a value, case "throw" (lines 276-285)
TerminalReturnThrow ==
    /\ Walking
    /\ \E value \in Readable :
          /\ Install(VisitOperand(Ctx, value))
          /\ Record(ReadsOf(Other(<<value>>)), NoLValue)
    /\ nextId' = nextId + 1
    /\ UNCHANGED <<malformed, Inputs, frames, nscopes, pc, chain>>

\* case "if" (lines 298-305), up to the visit of the consequent
TerminalIf ==
    /\ Walking
    /\ \E test \in Readable, alternate \in BOOLEAN :
          /\ Install(VisitOperand(Ctx, test))
          /\ Record(ReadsOf(Other(<<test>>)), NoLValue)
          /\ frames' = Append(frames, Block(IF alternate THEN 1 ELSE 0))
    /\ nextId' = nextId + 1
    /\ UNCHANGED <<malformed, Inputs, nscopes, pc, chain>>

\* case "while" (lines 293-297), up to the visit of the loop block
TerminalWhile ==
    /\ Walking
    /\ \E test \in ReactiveValues :
          /\ Install(VisitReactiveValue(Ctx, test))
          /\ Record(ReadsOf(test), NoLValue)
    /\ frames' = Append(frames, Block(0))
    /\ nextId' = nextId + 1
    /\ UNCHANGED <<malformed, Inputs, nscopes, pc, chain>>

\* case "for" (lines 286-292), up to the visit of the loop block
TerminalFor ==
    /\ Walking
    /\ \E init \in Leaves, test \in Leaves, update \in Leaves :
          /\ Install(VisitReactiveValues(Ctx, <<init, test, update>>))
          /\ Record(ReadsOf(init) \cup ReadsOf(test) \cup ReadsOf(update),
                    NoLValue)
    /\ frames' = Append(frames, Block(0))
    /\ nextId' = nextId + 1
    /\ UNCHANGED <<malformed, Inputs, nscopes, pc, chain>>

\* case "switch" (lines 306-314), up to the visit of the first case block
TerminalSwitch ==
    /\ Walking
    /\ \E test \in Readable, cases \in 0..MaxCases :
          /\ Install(VisitOperand(Ctx, test))
          /\ Record(ReadsOf(Other(<<test>>)), NoLValue)
          /\ frames' = IF cases = 0 THEN frames
                       ELSE Append(frames, Block(cases - 1))
    /\ nextId' = nextId + 1
    /\ UNCHANGED <<malformed, Inputs, nscopes, pc, chain>>

\* the end of a terminal's block: the terminal's next block, if it has one
EndBlock ==
    /\ pc = "walk"
    /\ frames # <<>>
    /\ Last(frames).kind = "block"
    /\ frames' = IF Last(frames).more > 0
                 THEN Append(Front(frames), Block(Last(frames).more - 1))
                 ELSE Front(frames)
    /\ UNCHANGED <<malformed, declarations, properties, scopes, depStack, sdeps, sdecls,
                   sreass, Inputs, nextId, nscopes, pc,
                   reads, escaped, written, chain>>

\* default cases that skip the item instead of calling assertExhaustive
UnexpectedItemSkipped ==
    /\ Walking
    /\ malformed' = TRUE
    /\ nextId' = nextId + 1
    /\ UNCHANGED <<declarations, properties, scopes, depStack, sdeps, sdecls,
                   sreass, Inputs, frames, nscopes, pc,
                   reads, escaped, written, chain>>

\* the default cases (lines 315-327): an item that is no scope, instruction or
\* terminal, or a terminal of a kind the switch does not list
UnexpectedItem ==
    /\ Walking
    /\ malformed' = TRUE
    /\ pc' = AssertExhaustive
    /\ UNCHANGED <<declarations, properties, scopes, depStack, sdeps, sdecls,
                   sreass, Inputs, frames, nextId, nscopes,
                   reads, escaped, written, chain>>

\* visit(context, fn.body) returns.  The function holds MaxId instructions
\* and terminals: a shorter one is this one less its trailing break terminals,
\* which the pass skips.
Finish ==
    /\ pc = "walk"
    /\ frames = <<>>
    /\ nextId > MaxId
    /\ pc' = "done"
    /\ UNCHANGED <<malformed, declarations, properties, scopes, depStack, sdeps, sdecls,
                   sreass, Inputs, frames, nextId, nscopes,
                   reads, escaped, written, chain>>

Next ==
    \/ InstructionNoLValue
    \/ InstructionLValue
    \/ EnterScope
    \/ ExitScope
    \/ TerminalBreakContinue
    \/ TerminalReturnThrow
    \/ TerminalIf
    \/ TerminalWhile
    \/ TerminalFor
    \/ TerminalSwitch
    \/ EndBlock
    \/ UnexpectedItem
    \/ Finish

Spec == Init /\ [][Next]_vars

\* =============================================================== claims
Done == pc = "done"
Entered == 1..nscopes
CurrentSet == Last(depStack)
Roots(deps) == {deps[i].place : i \in DOMAIN deps}
WholeRoots(deps) == {deps[i].place : i \in {j \in DOMAIN deps : deps[j].path = NullPath}}
EntriesOf(deps, root) == {i \in DOMAIN deps : deps[i].place = root}
IsPrefix(p, q) == Len(p) <= Len(q) /\ SubSeq(q, 1, Len(p)) = p
Paths == {NullPath} \cup UNION {[1..n -> Keys] : n \in 1..2}
Candidates == {Dep(r, p) : r \in Params \cup Locals, p \in Paths}

\* C1: when the pass finishes, every scope S holds a dependency rooted at each
\* named identifier that an instruction or terminal inside S read (as an
\* operand or as the object of a property load, bound to an output or not)
\* while the identifier's declaration was Dynamic with an id below
\* S.range.start.
C1_NoUnderCollection ==
    Done => \A s \in Entered : \A r \in reads[s] : r.id \in Roots(sdeps[s])

\* C2: when the pass finishes, no scope holds a dependency rooted at an
\* identifier for which the oracle answers false, wherever it was declared.
C2_ConstExclusion ==
    Done => \A s \in Entered : \A x \in Identifiers :
                reactive[x] = "no" => x \notin Roots(sdeps[s])

\* C3 (part 2): when the pass finishes, every identifier that was read (as an
\* operand, as a property-load temporary or as the object of a property load)
\* after its owning scope S was popped is in S.declarations.
C3_EscapeCorrectness ==
    Done => \A s \in Entered : escaped[s] \subseteq sdecls[s]

C5_Transitivity ==
    Done => \A s \in Entered : \A r \in reads[s] :
                (r.free /\ ~r.object) => r.id \in WholeRoots(sdeps[s])

\* C6: merging a qualifying whole-value candidate for root r into the current
\* working set leaves exactly one entry with root r, a whole-value one; so no
\* working set holds a whole-value and a path-qualified entry for one root.
C6_WholeValueCollapse ==
    /\ \A r \in Params \cup Locals :
          Qualifies(Ctx, Dep(r, NullPath)) =>
             LET merged == MergeDependency(CurrentSet, Dep(r, NullPath)) IN
             /\ Cardinality(EntriesOf(merged, r)) = 1
             /\ r \in WholeRoots(merged)
    /\ \A i \in DOMAIN depStack : \A r \in WholeRoots(depStack[i]) :
          \A j \in EntriesOf(depStack[i], r) : depStack[i][j].path = NullPath

\* C7: merging a qualifying candidate into a working set that holds an entry
\* with the same root that is whole-value, or whose path equals or is a prefix
\* of the candidate's, leaves the set unchanged.
C7_SubsumptionIdempotence ==
    \A cand \in Candidates :
       /\ Qualifies(Ctx, cand)
       /\ \E i \in EntriesOf(CurrentSet, cand.place) :
             \/ CurrentSet[i].path = NullPath
             \/ /\ cand.path # NullPath
                /\ IsPrefix(CurrentSet[i].path, cand.path)
       => MergeDependency(CurrentSet, cand) = CurrentSet

\* C8: inside a scope S whose working set is still empty and that holds a chain
\* of property loads over temporaries, ending in temporary t and starting at
\* an object obj that is Dynamic, declared before S.range.start and without an
\* active owning scope, an operand use of t leaves exactly one entry rooted at
\* obj, the chain's {root: obj, path: [k1, ..., kn]}, and no entry rooted at a
\* temporary.
C8_PropertyChainCompression ==
    \A t \in Temps :
       LET obj == chain[t].place
           S == CurrentScope(Ctx)
           after == Last(VisitOperand(Ctx, t).depStack) IN
       /\ chain[t] # NoDep
       /\ S # NoScope
       /\ CurrentSet = <<>>
       /\ \A u \in Temps : chain[u] # NoDep => u \in written[S]
       /\ declarations[obj].kind = "Dynamic"
       /\ declarations[obj].id < rstart[S]
       /\ IsFree(declarations[obj])
       => /\ after = <<chain[t]>>
          /\ Roots(after) \cap Temps = {}

\* C9: an entry added for a read that goes through a named identifier y has
\* root y: when y is used as a plain operand, and when a temporary loaded from
\* y (directly or through further temporaries) is used as an operand.
C9_NamedNeverAliased ==
    /\ \A y \in Params \cup Locals :
          LET after == Last(VisitOperand(Ctx, y).depStack) IN
          after # CurrentSet => Last(after).place = y
    /\ \A t \in Temps :
          LET after == Last(VisitOperand(Ctx, t).depStack) IN
          (chain[t] # NoDep /\ after # CurrentSet) =>
             Last(after).place = chain[t].place

\* C10: reassigning x while the current scope S differs from the open outer
\* scope O that owns x's declaration puts x in S.reassignments, whatever x's
\* own owning-scope field is, and a second reassignment changes nothing more.
C10_ReassignmentRecorded ==
    \A x \in Params \cup Locals :
       \A scope \in {NoScope} \cup Entered :
          LET S == CurrentScope(Ctx)
              O == declarations[x].scope
              lvalue == [kind |-> "Reassign", place |-> x]
              once == VisitReassignment(Ctx, lvalue, scope) IN
          /\ declarations[x] # NoDecl
          /\ identScope[x] \in {UnknownScope, scope}
          /\ x \in Params => scope = NoScope
          /\ O # NoScope
          /\ IsScopeActive(Ctx, O)
          /\ S # O
          => /\ x \in once.sreass[S]
             /\ VisitReassignment(once, lvalue, scope) = once

\* C11: a step never changes the dependencies of a scope that is already
\* closed, and the step that closes a scope leaves in scope.dependencies the
\* set collected while the scope was open, whatever the upward propagation
\* into the parent does.
C11_ClosedSetsStable ==
    [][/\ \A s \in Entered : ~IsScopeActive(Ctx, s) => sdeps'[s] = sdeps[s]
       /\ (scopes # <<>> /\ scopes' = Front(scopes)) =>
             sdeps'[Last(scopes)] = CurrentSet]_vars

\* C11 witness: scope 2, nested in the open scope 1, is closed with a
\* dependency, an instruction of scope 1 after it read one of its outputs, and
\* the parent's working set differs from the closed set.
C11_Witness ==
    /\ scopes = <<1>>
    /\ nscopes = 2
    /\ sdeps[2] # <<>>
    /\ escaped[2] # {}
    /\ CurrentSet # sdeps[2]

\* C12: when the walker meets an item or terminal of a form outside the
\* enumerated set, the pass is in its error outcome at once, and from then on
\* no step is taken: no later item is visited and the pass is never done.
C12_FatalAbort ==
    [][~malformed /\ (malformed' => pc' = "error")]_vars

\* C12 witness: the error outcome inside an open scope, with ids left for the
\* items after the malformed one
C12_Witness ==
    /\ malformed
    /\ pc = "error"
    /\ scopes # <<>>
    /\ nextId <= MaxId
    /\ CurrentSet # <<>>

\* what is left of the walk: the instructions and terminals not yet visited,
\* the scopes not yet entered and the blocks still open
RECURSIVE OpenBlocks(_)
OpenBlocks(fs) ==
    IF fs = <<>> THEN 0 ELSE 1 + Head(fs).more + OpenBlocks(Tail(fs))
Variant ==
    IF pc # "walk" THEN 0
    ELSE 1 + (MaxCases + 2) * (MaxId + 1 - nextId)
           + 2 * (MaxScopes - nscopes) + OpenBlocks(frames)

\* the guards of the visit of an instruction or terminal, of EndBlock, of
\* ExitScope and of Finish
CanVisitItem == Walking
CanEndBlock == pc = "walk" /\ frames # <<>> /\ Last(frames).kind = "block"
CanExitScope ==
    /\ pc = "walk"
    /\ frames # <<>>
    /\ Last(frames).kind = "scope"
    /\ rstart[Last(scopes)] < nextId
CanFinish == pc = "walk" /\ frames = <<>> /\ nextId > MaxId

\* C13: the walk of a finite well-formed block tree completes: every step
\* lowers a natural-number variant, and while the pass is not over it can
\* visit a well-formed item, close a block or a scope, or return; at completion
\* every instruction and terminal has been visited once (each visit hands out
\* the next id), no block or scope is left open, the scope stack is empty and
\* the top-level working set is the current one.
C13_Termination ==
    /\ [][Variant' < Variant]_vars
    /\ [](Variant >= 0)
    /\ [](pc = "walk" => \/ CanVisitItem
                         \/ CanEndBlock
                         \/ CanExitScope
                         \/ CanFinish)
    /\ [](Done => /\ scopes = <<>>
                  /\ frames = <<>>
                  /\ Len(depStack) = 1
                  /\ nextId = MaxId + 1)

\* C13 witness: completion after a walk through three scopes, one of them
\* nested, that collected dependencies
C13_Witness ==
    /\ Done
    /\ nscopes = MaxScopes
    /\ rstart[1] < rstart[2]
    /\ sdeps[1] # <<>>
    /\ sdeps[3] # <<>>

\* C14: whenever the visit of a reassignment of x adds x to the reassignments
\* of the current scope S, the declaration record of x at that moment has an
\* owning scope different from S.
C14_ReassignmentsNotOwned ==
    \A x \in Params \cup Locals :
       \A scope \in {NoScope} \cup Entered :
          LET S == CurrentScope(Ctx)
              lvalue == [kind |-> "Reassign", place |-> x]
              after == VisitReassignment(Ctx, lvalue, scope) IN
          /\ S # NoScope
          /\ declarations[x] # NoDecl
          /\ identScope[x] \in {UnknownScope, scope}
          /\ x \in Params => scope = NoScope
          /\ x \in after.sreass[S] \ sreass[S]
          => declarations[x].scope # S

StrictPrefix(p, q) == IsPrefix(p, q) /\ Len(p) < Len(q)

\* C15: merging a qualifying path-qualified candidate whose path is a strict
\* prefix of the path of an entry with the same root, while no entry covers
\* the candidate, appends the candidate and keeps every entry; merging a
\* qualifying candidate whose path strictly extends the path of an entry with
\* the same root leaves the set as it is.
C15_MergeAsymmetry ==
    \A cand \in Candidates :
       (cand.path # NullPath /\ Qualifies(Ctx, cand)) =>
          LET same == EntriesOf(CurrentSet, cand.place)
              merged == MergeDependency(CurrentSet, cand) IN
          /\ ( /\ \E i \in same : StrictPrefix(cand.path, CurrentSet[i].path)
               /\ \A i \in same : /\ CurrentSet[i].path # NullPath
                                  /\ ~IsPrefix(CurrentSet[i].path, cand.path) )
             => merged = Append(CurrentSet, cand)
          /\ ( \E i \in same : /\ CurrentSet[i].path # NullPath
                               /\ StrictPrefix(CurrentSet[i].path, cand.path) )
             => merged = CurrentSet

\* C15 witness: a working set that holds a path-qualified entry and, added
\* after it, an entry with the same root whose path is a strict prefix of it
C15_Witness ==
    \E i, j \in DOMAIN CurrentSet :
       /\ i < j
       /\ CurrentSet[i].place = CurrentSet[j].place
       /\ CurrentSet[j].path # NullPath
       /\ StrictPrefix(CurrentSet[j].path, CurrentSet[i].path)

\* C16: a call of visitDependency, with any operand or propagated entry, whose
\* resolved root has a declaration record owned by a scope S that is not on
\* the scope stack leaves the root in S.declarations: also when the record is
\* Const, at top level, and when no dependency is added.
C16_EscapePromotion ==
    \A x \in Identifiers : \A p \in {q \in Paths : Len(q) <= 1} :
       LET root == ResolveDependency(Ctx, Dep(x, p)).place
           decl == declarations[root] IN
       (decl # NoDecl /\ decl.scope # NoScope /\ ~IsScopeActive(Ctx, decl.scope))
       => root \in VisitDependency(Ctx, Dep(x, p)).sdecls[decl.scope]

\* C16 witness: at top level, with scope 1 the only scope and closed, a Const
\* local owned by scope 1 has been read and is in its declarations
C16_Witness ==
    /\ scopes = <<>>
    /\ nscopes = 1
    /\ declarations["y"].kind = "Const"
    /\ declarations["y"].scope = 1
    /\ "y" \in sdecls[1]
    /\ sdeps[1] = <<>>

\* the scope blocks among the walker's open blocks
RECURSIVE ScopeBlocks(_)
ScopeBlocks(fs) ==
    IF fs = <<>> THEN 0
    ELSE (IF Head(fs).kind = "scope" THEN 1 ELSE 0) + ScopeBlocks(Tail(fs))

\* C17: the scope stack is the chain of the scope blocks the walker is inside,
\* outermost first, each with the working set created at its entry: entering
\* a scope block pushes that scope and a new empty current set and touches
\* nothing below; leaving it pops both, hands the set that was current to
\* scope.dependencies, and makes current the set in place before the entry
\* (into which the closed scope's entries are then offered); every other step
\* keeps the stack and changes at most the current set.
C17_ScopeStackDiscipline ==
    /\ [](/\ Len(scopes) = ScopeBlocks(frames)
          /\ Len(depStack) = Len(scopes) + 1
          /\ \A i \in DOMAIN scopes :
                /\ scopes[i] \in Entered
                /\ i > 1 => scopes[i - 1] < scopes[i])
    /\ [][LET below(n) == \A i \in 1..n : depStack'[i] = depStack[i]
              restored == [Ctx EXCEPT !.scopes = Front(@),
                                      !.depStack = Front(@)] IN
          IF frames' = Append(frames, Scope("scope"))
          THEN /\ scopes' = Append(scopes, nscopes')
               /\ nscopes' = nscopes + 1
               /\ depStack' = Append(depStack, <<>>)
          ELSE IF /\ frames # <<>>
                  /\ Last(frames).kind = "scope"
                  /\ frames' = Front(frames)
          THEN /\ scopes' = Front(scopes)
               /\ sdeps'[Last(scopes)] = CurrentSet
               /\ Len(depStack') = Len(depStack) - 1
               /\ below(Len(depStack) - 2)
               /\ Last(depStack') =
                     Last(PropagateUpward(restored, CurrentSet).depStack)
          ELSE /\ scopes' = scopes
               /\ Len(depStack') = Len(depStack)
               /\ below(Len(depStack) - 1)]_vars

\* C17 witness: inside scope 3, nested in scope 1 after its sibling scope 2
\* was closed, with different non-empty working sets for scope 1 and scope 3
C17_Witness ==
    /\ scopes = <<1, 3>>
    /\ depStack[2] # <<>>
    /\ depStack[3] # <<>>
    /\ depStack[2] # depStack[3]

\* an entry of deps has the candidate's root and is whole-value or has a path
\* that is a prefix of, or equal to, the candidate's
Covers(deps, cand) ==
    \E i \in EntriesOf(deps, cand.place) :
       \/ deps[i].path = NullPath
       \/ cand.path # NullPath /\ IsPrefix(deps[i].path, cand.path)

\* C18: a qualifying candidate is covered by the working set right after its
\* merge, a merge leaves covered whatever an entry of the set covered, and no
\* step of the walk takes coverage away from the working set of an open
\* scope; when the scope closes, its dependencies cover what its working set
\* covered.
C18_CoverageKept ==
    /\ [](\A cand \in Candidates :
             Qualifies(Ctx, cand) =>
                LET merged == MergeDependency(CurrentSet, cand) IN
                /\ Covers(merged, cand)
                /\ \A k \in DOMAIN CurrentSet : Covers(merged, CurrentSet[k]))
    /\ [][\A i \in DOMAIN scopes : \A k \in DOMAIN depStack[i + 1] :
             IF i \in DOMAIN scopes' /\ scopes'[i] = scopes[i]
             THEN Covers(depStack'[i + 1], depStack[i + 1][k])
             ELSE Covers(sdeps'[scopes[i]], depStack[i + 1][k])]_vars

\* C18 witness: a closed scope whose set held a.b and a.c when the whole value
\* a was merged: a.b was removed and is covered by the whole-value entry
C18_Witness ==
    \E s \in Entered :
       /\ ~IsScopeActive(Ctx, s)
       /\ sdeps[s] = <<Dep("a", <<"c">>), Dep("a", NullPath)>>

====
